---- MODULE Spec2Model ----
(***************************************************************************)
(* Model of cmd/containerd-stargz-grpc/ipfs/resolvehandler.go:             *)
(* ResolveHandler.Handle, fetcher.Fetch (the background copy/retry task,   *)
(* the io.Pipe between it and the consumer, the "ipfs cat" sub-processes   *)
(* and their detached drain-and-reap tasks), fetcher.Check, fetcher.GenID. *)
(***************************************************************************)
EXTENDS Integers, Sequences, FiniteSets, TLC

\* ---------------------------------------------------------------- bounds
ObjSize == 3
MaxLen == 2
MaxChunk == 2
MaxLockFails == 2
IdArgMax == 2

\* ------------------------------------------------------ program constants
maxretry == 100

\* The Fetch calls on the fetcher: two call identities.
Calls == {"A", "B"}
Offs == 0..(ObjSize + 1)
Lens == 0..MaxLen

Min(a, b) == IF a < b THEN a ELSE b
Max(a, b) == IF a > b THEN a ELSE b

\* The content store: the descriptor "withCID" carries a CID annotation, the
\* descriptor "noCID" carries none.  The object named by the CID holds
\* ObjSize bytes; the byte at position p (0-based) has the value p.
Descs == {"withCID", "noCID"}
TheCID == <<"b", "a", "f", "y">>
Object == [k \in 1..ObjSize |-> k - 1]

NoFetcher == [cid |-> <<>>, size |-> -1]
NoProc == [off |-> -1, len |-> -1, pos |-> 0, exited |-> TRUE, marker |-> FALSE]

VARIABLES
  env,        \* the environment's scenario: which calls are made, lock failures
  fetcher,    \* the fetcher returned by Handle: [cid, size], or NoFetcher
  handleRet,  \* what the last Handle returned: "none", "ok" or an error
  lastQuery,  \* result of the last Check / GenID call
  pc,         \* per Fetch call: position of the call / its background task
  off,        \* per call: argument off
  size,       \* per call: argument size
  ret,        \* per call: what Fetch returned: "none", "stream", "RangeError"
  i,          \* per call: loop counter i
  curoff,     \* per call: curoff
  n,          \* per call: bytes io.CopyN has written so far in this attempt
  proc,       \* per call: the attempt's sub-process (cmd), or NoProc
  stderrbuf,  \* per call: does stderrbuf hold the lock marker
  pend,       \* per call: bytes of the pw.Write in progress
  werr,       \* per call: the pipe's write-side close error, "open" if none
  closeArg,   \* per call: the error handed to pw.Close.. ("nil" for Close)
  cons,       \* per call: the consumer of pr
  rd,         \* per call: the bytes the consumer has read from pr
  got,        \* per call: the error the consumer's last Read returned
  started,    \* per call: number of sub-processes started
  failed,     \* per call: number of attempts whose copy failed
  draining,   \* per call: detached drain-and-wait tasks still running
  reaped,     \* per call: sub-processes waited on
  idCalls     \* GenID calls made on fetchers of any CID: [cid, off, size, id]

fetchVars == <<pc, off, size, ret, i, curoff, n, proc, stderrbuf, pend, werr,
               closeArg, cons, rd, got, started, failed, draining, reaped>>
vars == <<env, idCalls, fetcher, handleRet, lastQuery, pc, off, size, ret, i, curoff, n,
          proc, stderrbuf, pend, werr, closeArg, cons, rd, got, started,
          failed, draining, reaped>>

\* ------------------------------------------------------------------ Init
NoReturn == [err |-> "none", size |-> 0, desc |-> "", statOK |-> FALSE,
             numeric |-> FALSE, queries |-> <<>>]
NoQuery == [op |-> "none", val |-> <<>>, ran |-> <<>>]

InitCalls ==
  /\ idCalls = <<>>
  /\ fetcher = NoFetcher
  /\ handleRet = NoReturn
  /\ lastQuery = NoQuery
  /\ pc = [c \in Calls |-> "idle"]
  /\ off = [c \in Calls |-> 0]
  /\ size = [c \in Calls |-> 0]
  /\ ret = [c \in Calls |-> "none"]
  /\ i = [c \in Calls |-> 0]
  /\ curoff = [c \in Calls |-> 0]
  /\ n = [c \in Calls |-> 0]
  /\ proc = [c \in Calls |-> NoProc]
  /\ stderrbuf = [c \in Calls |-> FALSE]
  /\ pend = [c \in Calls |-> <<>>]
  /\ werr = [c \in Calls |-> "open"]
  /\ closeArg = [c \in Calls |-> "none"]
  /\ cons = [c \in Calls |-> "none"]
  /\ rd = [c \in Calls |-> <<>>]
  /\ got = [c \in Calls |-> "none"]
  /\ started = [c \in Calls |-> 0]
  /\ failed = [c \in Calls |-> 0]
  /\ draining = [c \in Calls |-> 0]
  /\ reaped = [c \in Calls |-> 0]

\* One Fetch call with any arguments; the sub-processes of its first
\* MaxLockFails attempts may fail with the lock marker.
Init ==
  /\ env = [calls |-> {"A"}, lockLimit |-> MaxLockFails, offs |-> Offs,
            lens |-> Lens]
  /\ InitCalls

\* Two concurrent Fetch calls.
InitConc ==
  /\ env = [calls |-> Calls, lockLimit |-> 1, offs |-> {0},
            lens |-> {2}]
  /\ InitCalls

\* One Fetch call whose sub-processes may fail with the lock marker in every
\* attempt the code can make.
InitCeiling ==
  /\ env = [calls |-> {"A"}, lockLimit |-> maxretry + 1, offs |-> {0},
            lens |-> {1}]
  /\ InitCalls

\* ------------------------------------------------------- text conversions
\* Strings are sequences of one-character strings.
Digit(d) == CASE d = 0 -> "0" [] d = 1 -> "1" [] d = 2 -> "2" [] d = 3 -> "3"
              [] d = 4 -> "4" [] d = 5 -> "5" [] d = 6 -> "6" [] d = 7 -> "7"
              [] d = 8 -> "8" [] d = 9 -> "9"
DigitChars == {"0", "1", "2", "3", "4", "5", "6", "7", "8", "9"}
DigitVal(ch) == CHOOSE d \in 0..9 : Digit(d) = ch

\* fmt.Sprintf("%d", v)
RECURSIVE FormatNat(_)
FormatNat(v) == IF v < 10 THEN <<Digit(v)>>
                ELSE FormatNat(v \div 10) \o <<Digit(v % 10)>>
FormatInt(v) == IF v < 0 THEN <<"-">> \o FormatNat(0 - v) ELSE FormatNat(v)

\* No trimming of the final newline.
TrimNothing(s) == s

\* strings.TrimSuffix(s, "\n")
TrimSuffix(s) == IF Len(s) > 0 /\ s[Len(s)] = "\n" THEN SubSeq(s, 1, Len(s) - 1)
                 ELSE s

\* strconv.ParseInt(s, 10, 64): [ok, val]
RECURSIVE ParseNat(_, _)
ParseNat(s, acc) == IF s = <<>> THEN acc
                    ELSE ParseNat(Tail(s), acc * 10 + DigitVal(Head(s)))
ParseInt(s) ==
  LET body == IF Len(s) > 0 /\ s[1] \in {"+", "-"} THEN Tail(s) ELSE s
  IN IF body = <<>> \/ \E k \in 1..Len(body) : body[k] \notin DigitChars
     THEN [ok |-> FALSE, val |-> 0]
     ELSE [ok |-> TRUE,
           val |-> IF s[1] = "-" THEN 0 - ParseNat(body, 0) ELSE ParseNat(body, 0)]

\* ----------------------------------------------------------------- Handle
\* ipfs.GetCID(desc): the CID annotation of the descriptor, or an error.
GetCID(desc) == IF desc = "withCID" THEN [ok |-> TRUE, cid |-> TheCID]
                ELSE [ok |-> FALSE, cid |-> <<>>]

\* What "ipfs files stat --format=<size> /ipfs/<cid>" can print; <<"!">>
\* stands for the command failing (Output returns an error).
StatOutputs == {FormatInt(ObjSize) \o <<"\n">>, FormatInt(ObjSize),
                FormatInt(ObjSize) \o <<"\n", "\n">>,
                <<"n", "o", "\n">>, <<>>, <<"!">>}

\* Is the text a decimal number, with or without a sign.
NumericText(t) ==
  /\ t # <<>>
  /\ t[1] \in DigitChars \union {"+", "-"}
  /\ \E k \in 1..Len(t) : t[k] \in DigitChars
  /\ \A k \in 2..Len(t) : t[k] \in DigitChars

\* Did the size query print a number, with or without the final newline.
NumericOutput(out) ==
  \/ NumericText(out)
  \/ /\ Len(out) > 1
     /\ out[Len(out)] = "\n"
     /\ NumericText(SubSeq(out, 1, Len(out) - 1))

\* Lines 38-52.  handleRet records what the call returned (err, size), what
\* it was given (the descriptor; whether the size query succeeded and printed
\* a number) and the external queries it issued, in order.
Handle(desc, sizeB) ==
  /\ fetcher = NoFetcher
  /\ LET c == GetCID(desc)
         p == ParseInt(TrimSuffix(sizeB))
         r == [err |-> "nil", size |-> 0, desc |-> desc,
               statOK |-> sizeB # <<"!">>,
               numeric |-> sizeB # <<"!">> /\ NumericOutput(sizeB),
               queries |-> <<"GetCID", "stat">>]
     IN IF ~c.ok THEN
          /\ handleRet' = [r EXCEPT !.err = "GetCIDError", !.statOK = FALSE,
                                    !.numeric = FALSE,
                                    !.queries = <<"GetCID">>]
          /\ fetcher' = fetcher
        ELSE IF sizeB = <<"!">> THEN
          /\ handleRet' = [r EXCEPT !.err = "ExecError"]
          /\ fetcher' = fetcher
        ELSE IF ~p.ok THEN
          /\ handleRet' = [r EXCEPT !.err = "ParseError"]
          /\ fetcher' = fetcher
        ELSE
          /\ handleRet' = [r EXCEPT !.size = p.val]
          /\ fetcher' = [cid |-> c.cid, size |-> p.val]
  /\ UNCHANGED <<env, idCalls, lastQuery>>
  /\ UNCHANGED fetchVars

\* ------------------------------------------------------------ Check, GenID
\* An error that is replaced on the way out.
CheckReturnWrapped(res) == IF res = "nil" THEN "nil" ELSE "check failed"

\* Line 115: Check returns what cmd.Run() returned.
CheckReturn(res) == res

\* Line 115: one "ipfs files stat /ipfs/<cid>"; res is what Run returns.
Check(res) ==
  /\ fetcher # NoFetcher
  /\ lastQuery' = [op |-> "Check", val |-> <<CheckReturn(res)>>,
                   ran |-> <<[cmd |-> "stat", cid |-> fetcher.cid,
                              res |-> res]>>]
  /\ UNCHANGED <<env, idCalls, fetcher, handleRet>>
  /\ UNCHANGED fetchVars

\* A format that leaves the length out.
GenIDOfNoSize(cid, o, s) == cid \o <<"-">> \o FormatInt(o)

\* Line 119: fmt.Sprintf("%s-%d-%d", f.cid, off, size), the digest's input.
\* The digest is taken as injective: the identifier is the digest's input.
GenIDOf(cid, o, s) == cid \o <<"-">> \o FormatInt(o) \o <<"-">> \o FormatInt(s)

GenID(o, s) ==
  /\ fetcher # NoFetcher
  /\ lastQuery' = [op |-> "GenID", val |-> GenIDOf(fetcher.cid, o, s),
                   ran |-> <<>>]
  /\ UNCHANGED <<env, idCalls, fetcher, handleRet>>
  /\ UNCHANGED fetchVars

\* f.GenID(o, s) on a fetcher bound to cid, for any CID string and any
\* integers; idCalls keeps the arguments and the identifier of two calls.
IdCIDs == {<<"x">>, <<"x", "-">>, <<"x", "-", "1">>}
IdInts == (0 - IdArgMax)..IdArgMax

GenIDOn(cid, o, s) ==
  /\ Len(idCalls) < 2
  /\ idCalls' = Append(idCalls, [cid |-> cid, off |-> o, size |-> s,
                                 id |-> GenIDOf(cid, o, s)])
  /\ UNCHANGED <<env, fetcher, handleRet, lastQuery>>
  /\ UNCHANGED fetchVars

\* ------------------------------------------------------------------ Fetch
\* A range check that also rejects off = size.
RangeCheckStrict(o, fsize) == o >= fsize

\* Line 60: the range check.
RangeCheck(o, fsize) == o > fsize

FetchCall(c, o, s) ==
  /\ fetcher # NoFetcher
  /\ c \in env.calls
  /\ o \in env.offs
  /\ s \in env.lens
  /\ pc[c] = "idle"
  /\ off' = [off EXCEPT ![c] = o]
  /\ size' = [size EXCEPT ![c] = s]
  /\ IF RangeCheck(o, fetcher.size) THEN
       /\ ret' = [ret EXCEPT ![c] = "RangeError"]
       /\ pc' = [pc EXCEPT ![c] = "returned"]
       /\ UNCHANGED <<cons, curoff>>
     ELSE
       /\ ret' = [ret EXCEPT ![c] = "stream"]
       /\ pc' = [pc EXCEPT ![c] = "launch"]
       /\ cons' = [cons EXCEPT ![c] = "reading"]
       /\ curoff' = [curoff EXCEPT ![c] = o]
  /\ UNCHANGED <<env, idCalls, fetcher, handleRet, lastQuery, i, n, proc, stderrbuf,
                 pend, werr, closeArg, rd, got, started, failed, draining,
                 reaped>>

\* Line 69: the arguments of "ipfs cat --offset=%d --length=%d".
CmdArgs(cur, sz) == [off |-> cur, len |-> sz]

\* The number of bytes "ipfs cat" with these arguments can print.
Avail(p) == IF p.off > ObjSize THEN 0 ELSE Min(p.len, ObjSize - p.off)

\* Line 86: the byte count io.CopyN is asked for in an attempt.
CopyLimit(sz, cur, o) == sz

\* A retry with no ceiling.
IsTransientUnbounded(iv, sb) == sb

\* A retry decided without looking at the captured standard error.
IsTransientBlind(iv, sb) == iv < maxretry

\* Line 88: is a failed copy retried.
IsTransient(iv, sb) == iv < maxretry /\ sb

\* A cursor shared by the calls.
AdvanceCursorShared(cur, c, nn) == [d \in DOMAIN cur |-> cur[d] + nn]

\* A retry that restarts at the same offset.
AdvanceCursorNot(cur, c, nn) == cur

\* Line 92: curoff += n.
AdvanceCursor(cur, c, nn) == [cur EXCEPT ![c] = @ + nn]

\* A deferred function that drains and waits itself.
deferWaits(exited) == exited

\* Lines 79-85: the deferred function starts a goroutine and returns; it does
\* not depend on the sub-process having exited.
deferReturns(exited) == TRUE

\* A return path that starts no drain task.
DetachNone(dr, c) == dr

\* A pipe whose closed read side is not seen by the writer.
WriteFailNever(co) == FALSE

\* io.Pipe: a Write fails with ErrClosedPipe once the reader has closed pr.
WriteFails(co) == co = "closed"

\* Lines 79-85: "go func() { io.Copy(io.Discard, stdout); cmd.Wait() }()": one
\* more detached drain-and-wait task of call c.
Detach(dr, c) == [dr EXCEPT ![c] = @ + 1]

\* A buffered stream: a Write returns at once.
WriteReturnedAtOnce(p) == TRUE

\* io.Pipe: a Write returns once the reader has taken all its bytes.
WriteReturned(p) == p = <<>>

\* io.Pipe closeWrite: a nil error is stored as io.EOF.
closeWrite(err) == IF err = "nil" THEN "EOF" ELSE err

\* A loop that goes on after closing the stream with an error.
TerminalPcContinue(err) == IF err = "nil" THEN "done" ELSE "launch"

\* Lines 100-103, 107-109: after pw.CloseWithError(err) the task returns, and
\* after pw.Close() it ends.
TerminalPc(err) == "done"

\* Lines 72-78: create the sub-process; "ok", or the error of StdoutPipe/Start.
Launch(c, outcome) ==
  /\ pc[c] = "launch"
  /\ IF outcome = "ok" THEN
       /\ proc' = [proc EXCEPT ![c] =
                     [off |-> CmdArgs(curoff[c], size[c]).off,
                      len |-> CmdArgs(curoff[c], size[c]).len,
                      pos |-> 0, exited |-> FALSE, marker |-> FALSE]]
       /\ stderrbuf' = [stderrbuf EXCEPT ![c] = FALSE]
       /\ n' = [n EXCEPT ![c] = 0]
       /\ started' = [started EXCEPT ![c] = @ + 1]
       /\ pc' = [pc EXCEPT ![c] = "copy"]
       /\ UNCHANGED <<werr, closeArg>>
     ELSE
       /\ closeArg' = [closeArg EXCEPT ![c] = outcome]
       /\ werr' = [werr EXCEPT ![c] = closeWrite(outcome)]
       /\ pc' = [pc EXCEPT ![c] = TerminalPc(outcome)]
       /\ UNCHANGED <<proc, stderrbuf, n, started>>
  /\ UNCHANGED <<env, idCalls, fetcher, handleRet, lastQuery, off, size, ret, i, curoff,
                 pend, cons, rd, got, failed, draining, reaped>>

\* Line 86, io.CopyN: read up to k bytes of the sub-process's output and hand
\* them to pw.Write.
CopyRead(c, k) ==
  /\ pc[c] = "copy"
  /\ WriteReturned(pend[c])
  /\ n[c] < CopyLimit(size[c], curoff[c], off[c])
  /\ ~proc[c].exited
  /\ k >= 1
  /\ k <= CopyLimit(size[c], curoff[c], off[c]) - n[c]
  /\ k <= Avail(proc[c]) - proc[c].pos
  /\ pend' = [pend EXCEPT ![c] =
                @ \o [j \in 1..k |-> Object[proc[c].off + proc[c].pos + j]]]
  /\ proc' = [proc EXCEPT ![c].pos = @ + k]
  /\ UNCHANGED <<env, idCalls, fetcher, handleRet, lastQuery, pc, off, size, ret, i,
                 curoff, n, stderrbuf, werr, closeArg, cons, rd, got, started,
                 failed, draining, reaped>>

\* Lines 87-96: io.CopyN returned (n, err) with err # nil.
CopyFailed(c, err) ==
  /\ failed' = [failed EXCEPT ![c] = @ + 1]
  /\ IF IsTransient(i[c], stderrbuf[c]) THEN
       \* time.Sleep(time.Second) follows
       /\ pc' = [pc EXCEPT ![c] = "backoff"]
       /\ UNCHANGED <<proc, draining, werr, closeArg>>
     ELSE
       /\ deferReturns(proc[c].exited)
       /\ draining' = Detach(draining, c)
       /\ proc' = [proc EXCEPT ![c] = NoProc]
       /\ closeArg' = [closeArg EXCEPT ![c] = err]
       /\ werr' = [werr EXCEPT ![c] = closeWrite(err)]
       /\ pc' = [pc EXCEPT ![c] = TerminalPc(err)]

\* The sub-process's output ended before CopyN had its bytes: io.EOF.
CopyEOF(c) ==
  /\ pc[c] = "copy"
  /\ WriteReturned(pend[c])
  /\ n[c] < CopyLimit(size[c], curoff[c], off[c])
  /\ proc[c].exited
  /\ CopyFailed(c, "EOF")
  /\ UNCHANGED <<env, idCalls, fetcher, handleRet, lastQuery, off, size, ret, i, curoff,
                 n, stderrbuf, pend, cons, rd, got, started, reaped>>

\* A read of the sub-process's output fails.
CopyReadError(c) ==
  /\ pc[c] = "copy"
  /\ WriteReturned(pend[c])
  /\ n[c] < CopyLimit(size[c], curoff[c], off[c])
  /\ ~proc[c].exited
  /\ CopyFailed(c, "EIO")
  /\ UNCHANGED <<env, idCalls, fetcher, handleRet, lastQuery, off, size, ret, i, curoff,
                 n, stderrbuf, pend, cons, rd, got, started, reaped>>

\* pw.Write fails because the consumer closed pr: io.ErrClosedPipe; the bytes
\* not yet taken are dropped.
WriteFail(c) ==
  /\ pc[c] = "copy"
  /\ pend[c] # <<>>
  /\ WriteFails(cons[c])
  /\ pend' = [pend EXCEPT ![c] = <<>>]
  /\ CopyFailed(c, "ErrClosedPipe")
  /\ UNCHANGED <<env, idCalls, fetcher, handleRet, lastQuery, off, size, ret, i, curoff,
                 n, stderrbuf, cons, rd, got, started, reaped>>

\* Lines 98, 107-109: io.CopyN returned (size, nil); pw.Close().
CopyDone(c) ==
  /\ pc[c] = "copy"
  /\ WriteReturned(pend[c])
  /\ n[c] >= CopyLimit(size[c], curoff[c], off[c])
  /\ deferReturns(proc[c].exited)
  /\ draining' = Detach(draining, c)
  /\ proc' = [proc EXCEPT ![c] = NoProc]
  /\ closeArg' = [closeArg EXCEPT ![c] = "nil"]
  /\ werr' = [werr EXCEPT ![c] = closeWrite("nil")]
  /\ pc' = [pc EXCEPT ![c] = TerminalPc("nil")]
  /\ UNCHANGED <<env, idCalls, fetcher, handleRet, lastQuery, off, size, ret, i, curoff,
                 n, stderrbuf, pend, cons, rd, got, started, failed, reaped>>

\* Lines 91-93, 104-105, 67: the sleep is over; curoff += n; return true (the
\* deferred function starts the drain task); continue; i++.
Backoff(c) ==
  /\ pc[c] = "backoff"
  /\ deferReturns(proc[c].exited)
  /\ curoff' = AdvanceCursor(curoff, c, n[c])
  /\ draining' = Detach(draining, c)
  /\ proc' = [proc EXCEPT ![c] = NoProc]
  /\ i' = [i EXCEPT ![c] = @ + 1]
  /\ pc' = [pc EXCEPT ![c] = "launch"]
  /\ UNCHANGED <<env, idCalls, fetcher, handleRet, lastQuery, off, size, ret, n,
                 stderrbuf, pend, werr, closeArg, cons, rd, got, started,
                 failed, reaped>>

\* Lines 80-84: a detached task reads the sub-process's output to its end and
\* waits on it: the sub-process ends its output and exits, the task reaps it.
DrainAndReap(c) ==
  /\ draining[c] > 0
  /\ draining' = [draining EXCEPT ![c] = @ - 1]
  /\ reaped' = [reaped EXCEPT ![c] = @ + 1]
  /\ UNCHANGED <<env, idCalls, fetcher, handleRet, lastQuery, pc, off, size, ret, i,
                 curoff, n, proc, stderrbuf, pend, werr, closeArg, cons, rd,
                 got, started, failed>>

\* ------------------------------------------------------- the sub-process
\* The attempt's sub-process ends its output and exits; with m it has written
\* "someone else has the lock" to its standard error.
ProcExit(c, m) ==
  /\ proc[c] # NoProc
  /\ ~proc[c].exited
  /\ m => i[c] < env.lockLimit
  /\ proc' = [proc EXCEPT ![c].exited = TRUE, ![c].marker = m]
  /\ UNCHANGED <<env, idCalls, fetcher, handleRet, lastQuery, pc, off, size, ret, i,
                 curoff, n, stderrbuf, pend, werr, closeArg, cons, rd, got,
                 started, failed, draining, reaped>>

\* os/exec's copying goroutine moves the sub-process's standard error into
\* stderrbuf (line 71); it runs concurrently with the task.
StderrCapture(c) ==
  /\ proc[c] # NoProc
  /\ proc[c].marker
  /\ ~stderrbuf[c]
  /\ stderrbuf' = [stderrbuf EXCEPT ![c] = TRUE]
  /\ UNCHANGED <<env, idCalls, fetcher, handleRet, lastQuery, pc, off, size, ret, i,
                 curoff, n, proc, pend, werr, closeArg, cons, rd, got, started,
                 failed, draining, reaped>>

\* ---------------------------------------------------------- the consumer
\* pr.Read takes k bytes of the pending write; the write's count grows by k.
ConsumerRead(c, k) ==
  /\ cons[c] = "reading"
  /\ k >= 1
  /\ k <= Len(pend[c])
  /\ rd' = [rd EXCEPT ![c] = @ \o SubSeq(pend[c], 1, k)]
  /\ pend' = [pend EXCEPT ![c] = SubSeq(@, k + 1, Len(@))]
  /\ n' = [n EXCEPT ![c] = @ + k]
  /\ UNCHANGED <<env, idCalls, fetcher, handleRet, lastQuery, pc, off, size, ret, i,
                 curoff, proc, stderrbuf, werr, closeArg, cons, got, started,
                 failed, draining, reaped>>

\* pr.Read on the closed pipe returns the write side's error.
ConsumerReadEnd(c) ==
  /\ cons[c] = "reading"
  /\ pend[c] = <<>>
  /\ werr[c] # "open"
  /\ got' = [got EXCEPT ![c] = werr[c]]
  /\ cons' = [cons EXCEPT ![c] = "ended"]
  /\ UNCHANGED <<env, idCalls, fetcher, handleRet, lastQuery, pc, off, size, ret, i,
                 curoff, n, proc, stderrbuf, pend, werr, closeArg, rd, started,
                 failed, draining, reaped>>

\* pr.Close() before the end of the stream.
ConsumerClose(c) ==
  /\ cons[c] = "reading"
  /\ cons' = [cons EXCEPT ![c] = "closed"]
  /\ UNCHANGED <<env, idCalls, fetcher, handleRet, lastQuery, pc, off, size, ret, i,
                 curoff, n, proc, stderrbuf, pend, werr, closeArg, rd, got,
                 started, failed, draining, reaped>>

\* The consumer stops reading and drops pr without closing it.
ConsumerStop(c) ==
  /\ cons[c] = "reading"
  /\ cons' = [cons EXCEPT ![c] = "stopped"]
  /\ UNCHANGED <<env, idCalls, fetcher, handleRet, lastQuery, pc, off, size, ret, i,
                 curoff, n, proc, stderrbuf, pend, werr, closeArg, rd, got,
                 started, failed, draining, reaped>>

\* ------------------------------------------------------------------- Next
TaskStep(c) ==
  \/ \E outcome \in {"ok", "ErrStdoutPipe", "ErrStart"} : Launch(c, outcome)
  \/ \E k \in 1..MaxChunk : CopyRead(c, k)
  \/ CopyEOF(c)
  \/ CopyReadError(c)
  \/ WriteFail(c)
  \/ CopyDone(c)
  \/ Backoff(c)

Next ==
  \/ \E desc \in Descs, sizeB \in StatOutputs : Handle(desc, sizeB)
  \/ \E res \in {"nil", "exit status 1"} : Check(res)
  \/ \E o \in {0, 1}, s \in {1} : GenID(o, s)
  \/ \E c \in Calls, o \in Offs, s \in Lens : FetchCall(c, o, s)
  \/ \E c \in Calls : TaskStep(c)
  \/ \E c \in Calls : DrainAndReap(c)
  \/ \E c \in Calls, m \in BOOLEAN : ProcExit(c, m)
  \/ \E c \in Calls : StderrCapture(c)
  \/ \E c \in Calls, k \in 1..MaxChunk : ConsumerRead(c, k)
  \/ \E c \in Calls : ConsumerReadEnd(c)
  \/ \E c \in Calls : ConsumerClose(c)
  \/ \E c \in Calls : ConsumerStop(c)

Spec == Init /\ [][Next]_vars
SpecConc == InitConc /\ [][Next]_vars
SpecCeiling == InitCeiling /\ [][Next]_vars

\* GenID alone, on any two triples (CID, off, size).
InitPure ==
  /\ env = [calls |-> {}, lockLimit |-> 0, offs |-> {}, lens |-> {}]
  /\ InitCalls

NextPure == \E cid \in IdCIDs, o \in IdInts, s \in IdInts : GenIDOn(cid, o, s)

SpecPure == InitPure /\ [][NextPure]_vars

\* The scheduler runs every goroutine that can take a step, every sub-process
\* eventually ends its output and exits, and os/exec's copier and the detached
\* drain tasks run.  Nothing is assumed of the consumer.
Fairness ==
  \A c \in Calls :
    /\ WF_vars(TaskStep(c))
    /\ WF_vars(\E m \in BOOLEAN : ProcExit(c, m))
    /\ WF_vars(StderrCapture(c))
    /\ WF_vars(DrainAndReap(c))

LiveSpec == Init /\ [][Next]_vars /\ Fairness

\* A consumer that is reading takes the bytes handed to it and the end of the
\* stream; it remains free to stop or to close.
ConsumerFairness ==
  \A c \in Calls :
    /\ WF_vars(\E k \in 1..MaxChunk : ConsumerRead(c, k))
    /\ WF_vars(ConsumerReadEnd(c))

\* One Fetch call on a fetcher that Handle has bound, with sub-processes that
\* may fail with the lock marker in every attempt the code can make.
InitFetching ==
  /\ env = [calls |-> {"A"}, lockLimit |-> maxretry + 1, offs |-> {0},
            lens |-> {1}]
  /\ idCalls = <<>>
  /\ fetcher = [cid |-> TheCID, size |-> ObjSize]
  /\ handleRet = [err |-> "nil", size |-> ObjSize, desc |-> "withCID",
                  statOK |-> TRUE, numeric |-> TRUE,
                  queries |-> <<"GetCID", "stat">>]
  /\ lastQuery = NoQuery
  /\ pc = [c \in Calls |-> "idle"]
  /\ off = [c \in Calls |-> 0]
  /\ size = [c \in Calls |-> 0]
  /\ ret = [c \in Calls |-> "none"]
  /\ i = [c \in Calls |-> 0]
  /\ curoff = [c \in Calls |-> 0]
  /\ n = [c \in Calls |-> 0]
  /\ proc = [c \in Calls |-> NoProc]
  /\ stderrbuf = [c \in Calls |-> FALSE]
  /\ pend = [c \in Calls |-> <<>>]
  /\ werr = [c \in Calls |-> "open"]
  /\ closeArg = [c \in Calls |-> "none"]
  /\ cons = [c \in Calls |-> "none"]
  /\ rd = [c \in Calls |-> <<>>]
  /\ got = [c \in Calls |-> "none"]
  /\ started = [c \in Calls |-> 0]
  /\ failed = [c \in Calls |-> 0]
  /\ draining = [c \in Calls |-> 0]
  /\ reaped = [c \in Calls |-> 0]

\* The steps of Fetch, its sub-processes and its consumer.
NextFetch ==
  \/ \E c \in Calls, o \in Offs, s \in Lens : FetchCall(c, o, s)
  \/ \E c \in Calls : TaskStep(c)
  \/ \E c \in Calls : DrainAndReap(c)
  \/ \E c \in Calls, m \in BOOLEAN : ProcExit(c, m)
  \/ \E c \in Calls : StderrCapture(c)
  \/ \E c \in Calls, k \in 1..MaxChunk : ConsumerRead(c, k)
  \/ \E c \in Calls : ConsumerReadEnd(c)
  \/ \E c \in Calls : ConsumerClose(c)
  \/ \E c \in Calls : ConsumerStop(c)

LiveSpecCeiling ==
  InitFetching /\ [][NextFetch]_vars /\ Fairness /\ ConsumerFairness

\* ----------------------------------------------------------------- claims
\* object[o, o+s): the bytes of the requested range that the object holds.
Range(o, s) == [k \in 1..Max(0, Min(s, ObjSize - o)) |-> Object[o + k]]

IsPrefix(a, b) == Len(a) <= Len(b) /\ a = SubSeq(b, 1, Len(a))

CleanEnd(c) == cons[c] = "ended" /\ closeArg[c] = "nil"

\* C1: whatever transient lock failures occur, the bytes the consumer reads
\* from the stream are bytes of object[off, off+size) in order (a prefix of
\* the range at every moment), and once the stream has ended after the last
\* attempt succeeded they are exactly that range: none duplicated, none
\* missing, none beyond off+size.
C1_StreamIsRange ==
  \A c \in Calls :
    /\ IsPrefix(rd[c], Range(off[c], size[c]))
    /\ CleanEnd(c) => rd[c] = Range(off[c], size[c])

\* C2: a transfer that ends without having delivered the full requested
\* range is never reported to the consumer as a bare EOF: when the consumer's
\* read returns io.EOF, size bytes have been delivered.
C2_TruncatedIsError ==
  \A c \in Calls :
    (cons[c] = "ended" /\ got[c] = "EOF") => Len(rd[c]) >= size[c]

\* C3: every launched command carries --offset = off + (bytes delivered by
\* the earlier attempts) and --length = size, and a Fetch whose first N < 100
\* attempts failed and were retried and whose attempt N+1 succeeded has
\* launched exactly N+1 commands.
C3_RetryResumes ==
  \A c \in Calls :
    /\ proc[c] # NoProc =>
         /\ proc[c].off = off[c] + (Len(rd[c]) - n[c])
         /\ proc[c].len = size[c]
    /\ (pc[c] = "done" /\ closeArg[c] = "nil") =>
         /\ failed[c] < maxretry
         /\ failed[c] = i[c]
         /\ started[c] = failed[c] + 1

\* C3 witness: a Fetch ended cleanly after at least one retried attempt that
\* had already delivered bytes.
C3_Witness ==
  \E c \in Calls :
    /\ pc[c] = "done" /\ closeArg[c] = "nil"
    /\ failed[c] >= 1
    /\ curoff[c] > off[c]

\* The bound of C4 on its own: at most maxretry + 1 commands are launched,
\* and none after the stream is closed.
LaunchesBounded ==
  \A c \in Calls :
    /\ started[c] <= maxretry + 1
    /\ started[c] <= i[c] + 1
    /\ i[c] <= maxretry

\* C4: one Fetch launches at most 101 commands, and when every attempt has
\* failed with the lock marker (the last one's marker is in stderrbuf) the
\* Fetch ends after the attempt that reaches the ceiling with the stream
\* closed with an error (not the clean EOF of a completed transfer).
C4_Ceiling ==
  \A c \in Calls :
    /\ started[c] <= maxretry + 1
    /\ (pc[c] = "done" /\ failed[c] = maxretry + 1 /\ stderrbuf[c]) =>
         /\ closeArg[c] # "nil"
         /\ werr[c] # "EOF"

\* C5: Fetch returns the range error exactly when off > size of the fetcher,
\* and then there is no stream, no background task and no command; otherwise
\* (off = size included) it returns a stream.
C5_RangeError ==
  \A c \in Calls :
    pc[c] # "idle" =>
      /\ (ret[c] = "RangeError") <=> (off[c] > fetcher.size)
      /\ ret[c] = "RangeError" =>
           /\ pc[c] = "returned" /\ cons[c] = "none" /\ started[c] = 0
           /\ proc[c] = NoProc /\ werr[c] = "open" /\ draining[c] = 0
      /\ ret[c] # "RangeError" =>
           /\ ret[c] = "stream" /\ cons[c] # "none" /\ pc[c] # "returned"

\* C5 witness: a Fetch beyond the end of the blob has returned the error.
C5_Witness ==
  \E c \in Calls : ret[c] = "RangeError" /\ off[c] = fetcher.size + 1

Current(c) == IF proc[c] # NoProc THEN 1 ELSE 0

\* C6: every started sub-process whose attempt has ended has a detached
\* drain-and-wait task (or is already reaped), whatever the attempt's outcome,
\* and every such task eventually reaps its sub-process.
C6_DrainedAndReaped ==
  /\ [](\A c \in Calls : started[c] = Current(c) + draining[c] + reaped[c])
  /\ \A c \in Calls : \A k \in 1..(MaxLockFails + 1) :
       (draining[c] + reaped[c] >= k) ~> (reaped[c] >= k)

\* C6 witness: after a retried attempt and a terminal one, both sub-processes
\* are reaped.
C6_Witness ==
  \E c \in Calls : pc[c] = "done" /\ started[c] >= 2 /\ reaped[c] = started[c]

Settled(c) == pc[c] = "done" /\ proc[c] = NoProc /\ draining[c] = 0

ConsumerTook(c) ==
  \E k \in 1..Len(pend[c]) :
    /\ rd'[c] = rd[c] \o SubSeq(pend[c], 1, k)
    /\ pend'[c] = SubSeq(pend[c], k + 1, Len(pend[c]))

\* C8: the stream is a synchronous handoff: at most one write (one chunk) is
\* pending, while it is pending the task takes no further byte of the
\* sub-process's output, and its bytes leave it only by the consumer reading
\* them (or are dropped once the consumer has closed the stream).
C8_Handoff ==
  [][\A c \in Calls :
       /\ Len(pend[c]) <= MaxChunk /\ Len(pend'[c]) <= MaxChunk
       /\ pend[c] # <<>> =>
            /\ proc'[c] = NoProc \/ proc'[c].pos = proc[c].pos
            /\ \/ pend'[c] = pend[c]
               \/ ConsumerTook(c)
               \/ cons[c] = "closed" /\ pend'[c] = <<>>]_vars

\* C8 witness: a write is pending while the sub-process has more output.
C8_Witness ==
  \E c \in Calls :
    /\ pend[c] # <<>> /\ pc[c] = "copy"
    /\ ~proc[c].exited /\ proc[c].pos < Avail(proc[c])

CallState(c) ==
  <<pc[c], off[c], size[c], ret[c], i[c], curoff[c], n[c], proc[c],
    stderrbuf[c], pend[c], werr[c], closeArg[c], cons[c], rd[c], got[c],
    started[c], failed[c], draining[c], reaped[c]>>

\* C9: concurrent Fetch calls are independent: a step that changes the state
\* of one call (cursor, attempt counter, sub-process, stream) changes nothing
\* of another call, and once the fetcher exists no Fetch, Check or GenID step
\* changes its CID or size.
C9_Independent ==
  [][/\ \A c \in Calls : \A d \in Calls \ {c} :
          CallState(c)' # CallState(c) => CallState(d)' = CallState(d)
     /\ fetcher # NoFetcher => fetcher' = fetcher]_vars

\* C9 witness: one call has retried and advanced its cursor while the other
\* call is in the middle of its first attempt with a write pending.
C9_Witness ==
  /\ curoff["A"] > off["A"] /\ pc["A"] = "copy" /\ i["A"] = 1
  /\ pc["B"] = "copy" /\ i["B"] = 0 /\ pend["B"] # <<>>
  /\ lastQuery.op # "none"

\* C10: Fetch has returned the stream before any transfer work; the return of
\* an attempt (and with it the close of the stream after a satisfied copy, and
\* the next launch after the backoff) is possible whether or not the attempt's
\* sub-process has ended its output or exited.
C10_NoWait ==
  \A c \in Calls :
    /\ pc[c] \in {"launch", "copy", "backoff", "done"} => ret[c] = "stream"
    /\ pc[c] = "launch" => ENABLED Launch(c, "ok")
    /\ pc[c] = "backoff" => ENABLED Backoff(c)
    /\ (pc[c] = "copy" /\ pend[c] = <<>>
          /\ n[c] >= CopyLimit(size[c], curoff[c], off[c])) =>
         ENABLED CopyDone(c)

\* C10 witness: the consumer got EOF for a satisfied range while sub-processes
\* of the Fetch (a retried one and the last one) are still not reaped.
C10_Witness ==
  \E c \in Calls :
    /\ got[c] = "EOF" /\ closeArg[c] = "nil" /\ Len(rd[c]) >= size[c]
    /\ size[c] > 0 /\ draining[c] = 2

Triple(r) == <<r.cid, r.off, r.size>>

NoExternalCall ==
  /\ \A c \in Calls : started[c] = 0
  /\ handleRet.queries = <<>>
  /\ lastQuery.ran = <<>>

\* C11: GenID is a function of (CID, off, size) that makes no external call:
\* equal triples give equal identifiers, and any two triples that differ, for
\* every CID string and every integer off and size, give different inputs to
\* the digest.
C11_Injective ==
  /\ NoExternalCall
  /\ \A j \in 1..Len(idCalls) : \A k \in 1..Len(idCalls) :
       (Triple(idCalls[j]) = Triple(idCalls[k])) <=> (idCalls[j].id = idCalls[k].id)

NonNegative(r) == r.off >= 0 /\ r.size >= 0

\* C11 as amended: equal triples give equal identifiers, and any two triples
\* with non-negative off and size that differ, for every CID string, give
\* different inputs to the digest; no external call is made.
C11_InjectiveNonNegative ==
  /\ NoExternalCall
  /\ \A j \in 1..Len(idCalls) : \A k \in 1..Len(idCalls) :
       /\ Triple(idCalls[j]) = Triple(idCalls[k]) => idCalls[j].id = idCalls[k].id
       /\ (NonNegative(idCalls[j]) /\ NonNegative(idCalls[k])
             /\ Triple(idCalls[j]) # Triple(idCalls[k])) =>
            idCalls[j].id # idCalls[k].id

\* C11 witness: identifiers of two triples that differ in the length only,
\* for a CID that ends in the separator.
C11_Witness ==
  /\ Len(idCalls) = 2
  /\ idCalls[1].cid = <<"x", "-">> /\ idCalls[2].cid = <<"x", "-">>
  /\ idCalls[1].off = 2 /\ idCalls[2].off = 2
  /\ idCalls[1].size = 1 /\ idCalls[2].size = 2
  /\ idCalls[1].id # idCalls[2].id

\* C12: Handle returns a fetcher exactly when the CID extraction succeeds and
\* the size query succeeds with numeric output; the queries are issued in the
\* order extraction, size query, each at most once, and the size query not at
\* all after a failed extraction; a failed call returns no fetcher; on success
\* the returned size is the fetcher's size and its CID the extracted one.
C12_Resolve ==
  /\ (fetcher # NoFetcher) <=> (handleRet.err = "nil")
  /\ handleRet.err # "none" =>
       /\ (handleRet.err = "nil") <=>
            (GetCID(handleRet.desc).ok /\ handleRet.statOK /\ handleRet.numeric)
       /\ handleRet.queries =
            IF GetCID(handleRet.desc).ok THEN <<"GetCID", "stat">>
            ELSE <<"GetCID">>
       /\ handleRet.err = "nil" =>
            /\ handleRet.size = fetcher.size
            /\ fetcher.size = ObjSize
            /\ fetcher.cid = GetCID(handleRet.desc).cid

\* C12 witness: Handle has returned a fetcher and the size.
C12_Witness ==
  /\ handleRet.err = "nil" /\ handleRet.size = ObjSize
  /\ fetcher = [cid |-> TheCID, size |-> ObjSize]

\* C13: Check runs exactly one existence query, for the fetcher's CID, and
\* returns that query's result unchanged: nil when it succeeds, its error when
\* it fails.
C13_Check ==
  lastQuery.op = "Check" =>
    /\ Len(lastQuery.ran) = 1
    /\ lastQuery.ran[1].cmd = "stat"
    /\ lastQuery.ran[1].cid = fetcher.cid
    /\ lastQuery.val = <<lastQuery.ran[1].res>>
    /\ fetcher.cid = TheCID

\* C13 witness: a Check whose query failed has returned the query's error.
C13_Witness ==
  /\ lastQuery.op = "Check"
  /\ lastQuery.val = <<"exit status 1">>

\* C14: in every attempt the bytes copied into the stream are at most the
\* remaining length size - (curoff - off), hence the bytes written to the
\* stream over all attempts are at most size.
C14_RemainingLength ==
  \A c \in Calls :
    /\ pc[c] \in {"copy", "backoff"} =>
         n[c] + Len(pend[c]) <= size[c] - (curoff[c] - off[c])
    /\ Len(rd[c]) + Len(pend[c]) <= size[c]

\* The error io.CopyN returns in the state where the copy of call c fails.
CopyError(c) ==
  IF pend[c] # <<>> THEN "ErrClosedPipe"
  ELSE IF proc[c].exited THEN "EOF" ELSE "EIO"

\* C15: an attempt that fails without the lock marker in the captured
\* standard error, or that cannot create its pipe or start its sub-process,
\* ends the Fetch whatever the attempt count: the stream is closed with that
\* attempt's error, and no further command is launched.
C15_NoRetry ==
  [][\A c \in Calls :
       /\ (pc[c] = "copy" /\ failed'[c] > failed[c] /\ ~stderrbuf[c]) =>
            /\ pc'[c] = "done"
            /\ closeArg'[c] = CopyError(c)
            /\ werr'[c] # "open"
       /\ (pc[c] = "launch" /\ pc'[c] # "launch" /\ started'[c] = started[c]) =>
            /\ pc'[c] = "done"
            /\ closeArg'[c] \in {"ErrStdoutPipe", "ErrStart"}
            /\ werr'[c] = closeArg'[c]
       /\ (pc[c] = "done" /\ closeArg[c] # "nil") =>
            /\ pc'[c] = "done"
            /\ started'[c] = started[c]
            /\ closeArg'[c] = closeArg[c]]_vars

\* C15 witness: after a retry, an attempt failed on a read error with no
\* marker captured and the Fetch ended with that error.
C15_Witness ==
  \E c \in Calls :
    /\ pc[c] = "done" /\ closeArg[c] = "EIO" /\ ~stderrbuf[c]
    /\ i[c] >= 1 /\ started[c] = i[c] + 1

\* C16: whenever an attempt's copy fails, the attempt count is below 100 and
\* the sub-process has written the lock marker to its standard error, the
\* failure is retried, under every interleaving of the task with the capture
\* of the standard error.
C16_MarkerMeansRetry ==
  [][\A c \in Calls :
       (pc[c] = "copy" /\ failed'[c] > failed[c] /\ i[c] < maxretry
          /\ proc[c].marker) =>
         pc'[c] = "backoff"]_vars

Closed(c) == werr[c] # "open"

\* C17: the stream is closed exactly when the task has ended, and once it is
\* closed nothing of it changes: the close error stays (a clean close stays
\* clean, an error stays that error), no byte is written or read further, no
\* sub-process is launched, the task takes no step; only detached drain tasks
\* run.
C17_Absorbing ==
  /\ [](\A c \in Calls : Closed(c) <=> pc[c] = "done")
  /\ [][\A c \in Calls :
          Closed(c) =>
            /\ werr'[c] = werr[c] /\ closeArg'[c] = closeArg[c]
            /\ pc'[c] = "done" /\ started'[c] = started[c]
            /\ i'[c] = i[c] /\ curoff'[c] = curoff[c]
            /\ pend[c] = <<>> /\ pend'[c] = <<>> /\ rd'[c] = rd[c]
            /\ proc'[c] = NoProc
            /\ draining'[c] <= draining[c]]_vars

\* C17 witness: a closed stream while drain tasks of the Fetch still run.
C17_Witness ==
  \E c \in Calls :
    /\ Closed(c) /\ closeArg[c] = "EOF" /\ draining[c] = 2 /\ reaped[c] = 1

GaveUp(c) == cons[c] \in {"stopped", "closed"}

\* C18: a Fetch that passed the range check launches at most 101 commands
\* and, while the consumer keeps reading and every sub-process ends its
\* output, its task closes the stream and the consumer's reads end with EOF or
\* an error.
C18_Terminates ==
  /\ [](\A c \in Calls :
         /\ started[c] <= maxretry + 1
         /\ i[c] <= maxretry
         /\ cons[c] = "ended" => Closed(c) /\ got[c] = werr[c])
  /\ \A c \in Calls : (ret[c] = "stream") ~> (cons[c] = "ended" \/ GaveUp(c))

\* C18 witness: the consumer's reads ended after all 101 attempts.
C18_Witness ==
  \E c \in Calls :
    cons[c] = "ended" /\ started[c] = maxretry + 1 /\ failed[c] = maxretry + 1

====
